---- MODULE Spec2Model ----
(***************************************************************************)
(* Model of the onos-topo device store (package device, atomixStore) and   *)
(* of the callers around it.                                               *)
(*                                                                         *)
(* The store keeps no state of its own: every operation is one request to  *)
(* a replicated, versioned map (the persistence collaborator), so the map  *)
(* is part of the state.  Callers run concurrently; a call is in flight    *)
(* between the request reaching the service and the store function         *)
(* executing its single map request.                                       *)
(***************************************************************************)
EXTENDS Integers, Sequences, FiniteSets, TLC

\* ------------------------------------------------------------------ bounds
\* the map's version counter stops here (versions are assigned from it)
MaxIndex == 3

IDs == {"device-foo", "device-bar"}
Addresses == {"a:1", "b:1"}
Versions == {"1.0.0"}

\* values the validation of the service refuses
BadIDs == {"foo"}
BadAddresses == {"baz"}
BadVersions == {"abc"}
Procs == {"p1", "p2"}
Watchers == {"w1", "w2"}
Listers == {"l1"}

\* revisions a request can carry: unset (0), or any version the map can have
\* assigned before a call begins
Revisions == 0..(MaxIndex - 1)

\* ------------------------------------------------------------ data model
\* deviceapi.Device, reduced to the key, the revision and the two payload
\* fields the service validates
DeviceOf(id, rev, addr, ver) ==
    [ID |-> id, Revision |-> rev, Address |-> addr, Version |-> ver]

\* the devices of the tests: their software version is 1.0.0
Device(id, rev, addr) == DeviceOf(id, rev, addr, "1.0.0")

\* the empty message
NoDevice == DeviceOf("", 0, "", "")

\* the devices a caller can put in an Add or Update request
Inputs == {Device(id, rev, addr) : id \in IDs, rev \in Revisions, addr \in Addresses}

\* the devices of Remove requests: Delete reads the ID and the revision only
RemoveInputs == {DeviceOf(id, rev, "", "") : id \in IDs, rev \in Revisions}

\* proto.Marshal: every field of the message is written, the revision the
\* caller passed included
Marshal(device) == <<device.ID, device.Revision, device.Address, device.Version>>

\* proto.Unmarshal: no bytes give the empty message
Unmarshal(bytes) ==
    IF Len(bytes) = 0 THEN DeviceOf("", 0, "", "")
    ELSE DeviceOf(bytes[1], bytes[2], bytes[3], bytes[4])

\* _map.Entry; a Version of 0 is the absent entry (Get returns nil for it)
Entry(key, value, version) == [Key |-> key, Value |-> value, Version |-> version]

NoEntry == Entry("", <<>>, 0)

\* mutant of decodeDevice: the revision is left as it was unmarshalled
decodeDeviceKeepRevision(entry) == [Unmarshal(entry.Value) EXCEPT !.ID = entry.Key]

decodeDevice(entry) ==
    [Unmarshal(entry.Value) EXCEPT !.ID = entry.Key, !.Revision = entry.Version]

\* EventType
EventNone == ""
EventInserted == "inserted"
EventUpdated == "updated"
EventRemoved == "removed"

\* Event{Type, Device}
Event(type, device) == [Type |-> type, Device |-> device]

\* errors, as the callers tell them apart
OK == "ok"
Conflict == "Conflict"
NotFound == "NotFound"
Invalid == "ValidationError"
Timeout == "Timeout"

VARIABLES
    devices,    \* the map "devices": key -> entry (NoEntry when absent)
    index,      \* the map's version counter
    call,       \* per caller: its call (position, request, outcome)
    wpc,        \* per watcher: position of the forwarding goroutine
    mapCh,      \* per watcher: events the map has produced for it, in order
    mapOpen,    \* per watcher: the map's subscription is active
    inhand,     \* per watcher: the event the goroutine is sending
    consumer,   \* per watcher: state of the reader of ch
    delivered,  \* per watcher: events the reader has received, in order
    since,      \* history, per watcher: the map events of the mutations
                \* that took effect after its watch was registered
    lastRev,    \* history, per key: the revision of the last successful write
    snap,       \* history, per watcher: the entries present when its watch
                \* was registered
    gone,       \* history, per key: the revision of the record last removed
    list        \* per lister: its non-subscribing List call

vars == <<devices, index, call, wpc, mapCh, mapOpen, inhand, consumer,
          delivered, since, lastRev, snap, gone, list>>

storeVars == <<devices, index, since, lastRev, gone>>
watchVars == <<wpc, mapOpen, inhand, consumer, delivered, snap, list>>

\* A call: pc is "idle", the store function the call is waiting in ("Store",
\* "Delete", "Load"), or "done" when the response is on its way back.
\* in is the request's device as passed; err and out are the response;
\* cur (history) tells whether the request carried the revision that was the
\* key's current one when the call began.
Call(pc, o, in, cur, err, out) ==
    [pc |-> pc, op |-> o, in |-> in, cur |-> cur, err |-> err, out |-> out]

Idle == Call("idle", "", NoDevice, FALSE, OK, NoDevice)

\* A List call without subscription: pc is the position of the goroutine of
\* atomixStore.List ("init" before the call, "recv", "send", "closed"); keys
\* are the keys the map's entries stream has not read yet; mapCh holds the
\* entries it has produced; inhand is the device being sent; delivered are
\* the responses the caller has received.  History: snap and idx are the
\* entries and the version counter at call time, end the entries when the
\* stream ended.
Listing(pc, keys, ch, dev, out, snp, idx, end) ==
    [pc |-> pc, keys |-> keys, mapCh |-> ch, inhand |-> dev, delivered |-> out,
     snap |-> snp, idx |-> idx, end |-> end]

Init ==
    /\ devices = [id \in IDs |-> NoEntry]
    /\ index = 0
    /\ call = [p \in Procs |-> Idle]
    /\ wpc = [w \in Watchers |-> "init"]
    /\ mapCh = [w \in Watchers |-> <<>>]
    /\ mapOpen = [w \in Watchers |-> FALSE]
    /\ inhand = [w \in Watchers |-> Event(EventNone, NoDevice)]
    /\ consumer = [w \in Watchers |-> "init"]
    /\ delivered = [w \in Watchers |-> <<>>]
    /\ since = [w \in Watchers |-> <<>>]
    /\ lastRev = [id \in IDs |-> 0]
    /\ snap = [w \in Watchers |-> {}]
    /\ gone = [id \in IDs |-> 0]
    /\ list = [l \in Listers |-> Listing("init", {}, <<>>, NoDevice, <<>>, {}, 0, {})]

\* ------------------------------------------------- persistence collaborator
\* get(key) -> (value, version) | absent
MapGet(key) == IF key \in IDs THEN devices[key] ELSE NoEntry

\* put(key, value[, ifVersion]) -> (value, newVersion) | versionMismatch
\* ifVersion = 0 stands for a put without the option
MapPutErr(key, ifVersion) ==
    IF ifVersion = 0 \/ MapGet(key).Version = ifVersion THEN OK ELSE Conflict

\* remove(key[, ifVersion]) -> ok | versionMismatch | absent
MapRemoveErr(key, ifVersion) ==
    IF MapGet(key).Version = 0 THEN NotFound
    ELSE IF ifVersion # 0 /\ MapGet(key).Version # ifVersion THEN Conflict
    ELSE OK

\* _map.Event{Type, Entry}
MapEvent(type, entry) == [Type |-> type, Entry |-> entry]

\* the map hands every successful mutation to every active subscription
Publish(ev) ==
    [w \in Watchers |-> IF mapOpen[w] THEN Append(mapCh[w], ev) ELSE mapCh[w]]

\* history: the mutations that take effect while a watch is registered
Record(ev) ==
    [w \in Watchers |-> IF mapOpen[w] THEN Append(since[w], ev) ELSE since[w]]

\* a successful put: the entry gets the next version
MapPut(key, bytes) ==
    LET entry == Entry(key, bytes, index + 1)
        type == IF devices[key].Version = 0 THEN EventInserted ELSE EventUpdated
    IN /\ devices' = [devices EXCEPT ![key] = entry]
       /\ index' = index + 1
       /\ mapCh' = Publish(MapEvent(type, entry))
       /\ since' = Record(MapEvent(type, entry))
       /\ lastRev' = [lastRev EXCEPT ![key] = index + 1]
    /\ UNCHANGED gone

\* a successful remove: the event carries the entry that was removed
MapRemove(key) ==
    /\ devices' = [devices EXCEPT ![key] = NoEntry]
    /\ index' = index + 1
    /\ mapCh' = Publish(MapEvent(EventRemoved, devices[key]))
    /\ since' = Record(MapEvent(EventRemoved, devices[key]))
    /\ gone' = [gone EXCEPT ![key] = devices[key].Version]
    /\ UNCHANGED lastRev

\* calls that may still take a version from the counter
Pending ==
    Cardinality({p \in Procs :
        call[p].pc \in {"Store", "Delete", "StoreExpired", "DeleteExpired",
                         "LegacyStore", "LegacyDelete", "LegacyStoreExpired"}})

\* ------------------------------------------------------------ the service
\* history: the request carries the current revision of its key
Current(d) == d.Revision # 0 /\ MapGet(d.ID).Version = d.Revision

\* A request reaches the service; validation happens before the store is
\* called.  A call that passes is in flight until the store function runs.
Reject(p, o, d) ==
    call' = [call EXCEPT ![p] = Call("done", o, d, Current(d), Invalid, d)]

Begin(p, o, d, fn) ==
    call' = [call EXCEPT ![p] = Call(fn, o, d, Current(d), OK, NoDevice)]

\* validateDevice: the id is host-name safe, the address is host:port and
\* the version is MAJOR.MINOR.PATCH
ValidID(id) == id \in IDs
ValidAddress(addr) == addr \in Addresses
ValidVersion(ver) == ver \in Versions

\* mutant of ValidDevice: only the id is checked
ValidDeviceIDOnly(d) == ValidID(d.ID)

ValidDevice(d) == ValidID(d.ID) /\ ValidAddress(d.Address) /\ ValidVersion(d.Version)

\* Add: the device is valid and describes a new record
Add(p, d) ==
    /\ call[p].pc = "idle"
    /\ IF ~ValidDevice(d) \/ d.Revision # 0
          THEN Reject(p, "Add", d)
          ELSE index + Pending < MaxIndex /\ Begin(p, "Add", d, "Store")
    /\ UNCHANGED <<storeVars, mapCh, watchVars>>

\* Update: the device is valid and carries a revision
Update(p, d) ==
    /\ call[p].pc = "idle"
    /\ IF ~ValidDevice(d) \/ d.Revision = 0
          THEN Reject(p, "Update", d)
          ELSE index + Pending < MaxIndex /\ Begin(p, "Update", d, "Store")
    /\ UNCHANGED <<storeVars, mapCh, watchVars>>

\* Remove: the device goes to Store.Delete as it came
Remove(p, d) ==
    /\ call[p].pc = "idle"
    /\ index + Pending < MaxIndex
    /\ Begin(p, "Remove", d, "Delete")
    /\ UNCHANGED <<storeVars, mapCh, watchVars>>

\* An Update or a Remove arrives with the revision of the record of its id
\* that was removed last: the caller held it from before the removal.  The
\* map has handed that version out, so the call begins whatever the counter
\* is.
Resubmit(p, o, d) ==
    /\ call[p].pc = "idle"
    /\ d.Revision # 0
    /\ d.Revision = gone[d.ID]
    /\ Begin(p, o, d, IF o = "Update" THEN "Store" ELSE "Delete")
    /\ UNCHANGED <<storeVars, mapCh, watchVars>>

Get(p, id) ==
    /\ call[p].pc = "idle"
    /\ Begin(p, "Get", DeviceOf(id, 0, "", ""), "Load")
    /\ UNCHANGED <<storeVars, mapCh, watchVars>>

\* A caller in the process of the store passes to Store the very Device that
\* Load handed to it (Store takes a *Device), with or without a new address:
\* out of the finished Load and in of the Store are one object
StoreHeld(p) ==
    /\ call[p].pc = "done"
    /\ call[p].op = "Get"
    /\ call[p].err = OK
    /\ index + Pending < MaxIndex
    /\ \E addr \in Addresses :
          Begin(p, "Held", [call[p].out EXCEPT !.Address = addr], "Store")
    /\ UNCHANGED <<storeVars, mapCh, watchVars>>

\* Get answers NotFound when the store loads no device
GetErr(device) == IF device = NoDevice THEN NotFound ELSE OK

\* the response reaches the caller
Return(p) ==
    /\ call[p].pc = "done"
    /\ call' = [call EXCEPT ![p] = Idle]
    /\ UNCHANGED <<storeVars, mapCh, watchVars>>

Finish(p, err, out) ==
    call' = [call EXCEPT ![p].pc = "done", ![p].err = err, ![p].out = out]

\* -------------------------------------------------------------- the store
\* mutant of PutVersion: the put never carries IfVersion
PutVersionNone(device) == 0

\* the IfVersion option of the put: none (0) when the revision is unset
PutVersion(device) == IF device.Revision = 0 THEN 0 ELSE device.Revision

\* mutant of StoreResult: the device's revision is not updated
StoreResultStale(device, version) == device

\* device.Revision = deviceapi.Revision(entry.Version)
StoreResult(device, version) == [device EXCEPT !.Revision = version]

\* atomixStore.Store
Store(p) ==
    /\ call[p].pc = "Store"
    /\ LET device == call[p].in
           err == MapPutErr(device.ID, PutVersion(device))
       IN IF err = OK
             THEN /\ MapPut(device.ID, Marshal(device))
                  /\ Finish(p, OK, StoreResult(device, index + 1))
             ELSE /\ Finish(p, err, device)
                  /\ UNCHANGED <<storeVars, mapCh>>
    /\ UNCHANGED watchVars

\* mutant of RemoveVersion: a guarded delete is sent without its guard
RemoveVersionNone(device) == 0

\* the IfVersion option of the remove: none (0) unless Revision > 0
RemoveVersion(device) == IF device.Revision > 0 THEN device.Revision ELSE 0

\* mutant of RemoveKey: the guarded remove takes its key from a field that
\* is not set
RemoveKeyUnset(device) == IF device.Revision > 0 THEN "" ELSE device.ID

\* the key of the remove: string(device.ID) in both branches
RemoveKey(device) == device.ID

\* atomixStore.Delete
Delete(p) ==
    /\ call[p].pc = "Delete"
    /\ LET device == call[p].in
           err == MapRemoveErr(RemoveKey(device), RemoveVersion(device))
       IN IF err = OK
             THEN /\ MapRemove(RemoveKey(device))
                  /\ Finish(p, OK, device)
             ELSE /\ Finish(p, err, device)
                  /\ UNCHANGED <<storeVars, mapCh>>
    /\ UNCHANGED watchVars

\* what Load returns for a key: nil (NoDevice) when the map has no entry
LoadResult(id) ==
    IF MapGet(id).Version = 0 THEN NoDevice ELSE decodeDevice(MapGet(id))

\* atomixStore.Load
Load(p) ==
    /\ call[p].pc = "Load"
    /\ LET device == LoadResult(call[p].in.ID)
       IN Finish(p, GetErr(device), device)
    /\ UNCHANGED <<storeVars, mapCh, watchVars>>

\* ------------------------------------------------------------- deadlines
\* context.WithTimeout(context.Background(), 15*time.Second): the deadline
\* of the call's map request passes before the map has answered
Expire(p) ==
    /\ call[p].pc \in {"Store", "Delete", "Load", "LegacyStore"}
    /\ call' = [call EXCEPT ![p].pc =
                   CASE @ = "Store" -> "StoreExpired"
                     [] @ = "Delete" -> "DeleteExpired"
                     [] @ = "LegacyStore" -> "LegacyStoreExpired"
                     [] OTHER -> "LoadExpired"]
    /\ UNCHANGED <<storeVars, mapCh, watchVars>>

\* atomixStore.Store when Put returns the deadline's error: the error is
\* returned and the device is left as passed.  The request may have reached
\* the map or not, so the put takes effect or does not.
StoreTimeout(p) ==
    /\ call[p].pc = "StoreExpired"
    /\ LET device == call[p].in
       IN /\ \/ /\ MapPutErr(device.ID, PutVersion(device)) = OK
                /\ MapPut(device.ID, Marshal(device))
             \/ UNCHANGED <<storeVars, mapCh>>
          /\ Finish(p, Timeout, device)
    /\ UNCHANGED watchVars

\* atomixStore.Delete when Remove returns the deadline's error
DeleteTimeout(p) ==
    /\ call[p].pc = "DeleteExpired"
    /\ LET device == call[p].in
       IN /\ \/ /\ MapRemoveErr(RemoveKey(device), RemoveVersion(device)) = OK
                /\ MapRemove(RemoveKey(device))
             \/ UNCHANGED <<storeVars, mapCh>>
          /\ Finish(p, Timeout, device)
    /\ UNCHANGED watchVars

\* mutant of LoadErr: the error of Get is dropped, Load returns nil, nil
LoadErrNil(err) == OK

\* the error Load returns when Get returns one
LoadErr(err) == err

\* Get answers with the error of Load, and with NotFound when Load returns
\* neither an error nor a device
GetFail(err, device) == IF err # OK THEN err ELSE GetErr(device)

\* atomixStore.Load when Get returns the deadline's error
LoadTimeout(p) ==
    /\ call[p].pc = "LoadExpired"
    /\ Finish(p, GetFail(LoadErr(Timeout), NoDevice), NoDevice)
    /\ UNCHANGED <<storeVars, mapCh, watchVars>>

\* ---------------------------------------------------------------- the CLI
\* mutant of CliRequest: the request is built from the flags alone
CliRequestNoRevision(dvc, address) ==
    [dvc EXCEPT !.Address = address, !.Revision = 0]

\* runUpdateDeviceCommand: dvc := response.Device, the flags that are set
\* overwrite its fields, and dvc goes into the UpdateRequest
CliRequest(dvc, address) == [dvc EXCEPT !.Address = address]

\* runUpdateDeviceCommand after client.Get has returned a device:
\* client.Update with the device of the response
CliUpdate(p, address) ==
    /\ call[p].pc = "done"
    /\ call[p].op = "Get"
    /\ call[p].err = OK
    /\ LET dvc == CliRequest(call[p].out, address)
       IN IF ~ValidDevice(dvc) \/ dvc.Revision = 0
             THEN Reject(p, "CliUpdate", dvc)
             ELSE index + Pending < MaxIndex /\ Begin(p, "CliUpdate", dvc, "Store")
    /\ UNCHANGED <<storeVars, mapCh, watchVars>>

\* mutant of RemoveRequest: the device is sent with the revision the
\* record has when the command runs
RemoveRequestLoaded(id) == DeviceOf(id, MapGet(id).Version, "", "")

\* runRemoveDeviceCommand: &device.Device{ID: device.ID(id)}
RemoveRequest(id) == DeviceOf(id, 0, "", "")

\* runRemoveDeviceCommand: client.Remove
CliRemove(p, id) ==
    /\ call[p].pc = "idle"
    /\ index + Pending < MaxIndex
    /\ Begin(p, "CliRemove", RemoveRequest(id), "Delete")
    /\ UNCHANGED <<storeVars, mapCh, watchVars>>

\* ------------------------------------------------------- the legacy store
\* deviceproto.ObjectMetadata; a Device's Metadata is a pointer, nil or not
ObjectMetadata(id, version) == [nil |-> FALSE, Id |-> id, Version |-> version]

NilMetadata == [nil |-> TRUE, Id |-> "", Version |-> 0]

\* deviceproto.Device, reduced to the id, one payload field and the metadata
LegacyDevice(id, addr, meta) == [Id |-> id, Address |-> addr, Metadata |-> meta]

\* the metadata a caller can pass: none, what the store set (the device's
\* own id), or what the caller filled in (any id, the empty one included)
Metadatas ==
    {NilMetadata} \cup
    {ObjectMetadata(id, v) : id \in IDs \cup {""}, v \in Revisions}

LegacyInputs ==
    {LegacyDevice(id, "a:1", m) : id \in IDs, m \in Metadatas}

\* proto.Marshal of the legacy message
LegacyMarshal(device) == <<device.Id, device.Address, device.Metadata>>

\* a caller calls Store or Delete of the atomixDeviceStore
LegacyCall(p, fn, device) ==
    /\ call[p].pc = "idle"
    /\ index + Pending < MaxIndex
    /\ call' = [call EXCEPT ![p] = Call(fn, fn, device, FALSE, OK, NoDevice)]
    /\ UNCHANGED <<storeVars, mapCh, watchVars>>

\* the WithVersion option of the put: none (0) when Metadata is nil or its
\* Version is 0
LegacyPutVersion(device) ==
    IF device.Metadata.nil \/ device.Metadata.Version = 0
       THEN 0 ELSE device.Metadata.Version

\* device.Metadata = &ObjectMetadata{Id: device.Id, Version: kv.Version}
LegacyStoreResult(device, version) ==
    [device EXCEPT !.Metadata = ObjectMetadata(device.Id, version)]

\* atomixDeviceStore.Store
LegacyStore(p) ==
    /\ call[p].pc = "LegacyStore"
    /\ LET device == call[p].in
           err == MapPutErr(device.Id, LegacyPutVersion(device))
       IN IF err = OK
             THEN /\ MapPut(device.Id, LegacyMarshal(device))
                  /\ Finish(p, OK, LegacyStoreResult(device, index + 1))
             ELSE /\ Finish(p, err, device)
                  /\ UNCHANGED <<storeVars, mapCh>>
    /\ UNCHANGED watchVars

\* atomixDeviceStore.Store when Put returns the deadline's error
LegacyStoreTimeout(p) ==
    /\ call[p].pc = "LegacyStoreExpired"
    /\ LET device == call[p].in
       IN /\ \/ /\ MapPutErr(device.Id, LegacyPutVersion(device)) = OK
                /\ MapPut(device.Id, LegacyMarshal(device))
             \/ UNCHANGED <<storeVars, mapCh>>
          /\ Finish(p, Timeout, device)
    /\ UNCHANGED watchVars

\* the branch of Delete: Metadata != nil && Metadata.Version > 0
LegacyGuarded(device) == ~device.Metadata.nil /\ device.Metadata.Version > 0

\* the WithVersion option of the remove
LegacyRemoveVersion(device) ==
    IF LegacyGuarded(device) THEN device.Metadata.Version ELSE 0

\* the key of the remove: device.Metadata.Id in the guarded branch,
\* device.Id in the other
LegacyRemoveKey(device) ==
    IF LegacyGuarded(device) THEN device.Metadata.Id ELSE device.Id

\* atomixDeviceStore.Delete
LegacyDelete(p) ==
    /\ call[p].pc = "LegacyDelete"
    /\ LET device == call[p].in
           err == MapRemoveErr(LegacyRemoveKey(device), LegacyRemoveVersion(device))
       IN IF err = OK
             THEN /\ MapRemove(LegacyRemoveKey(device))
                  /\ Finish(p, OK, device)
             ELSE /\ Finish(p, err, device)
                  /\ UNCHANGED <<storeVars, mapCh>>
    /\ UNCHANGED watchVars

\* -------------------------------------------------------- the change feed
\* the entries of the map
Entries == {devices[id] : id \in {k \in IDs : devices[k].Version # 0}}

\* the sequences that hold each element of the set S once
Orders(S) ==
    {o \in [1..Cardinality(S) -> S] : \A i, j \in 1..Cardinality(S) : o[i] = o[j] => i = j}

\* atomixStore.Watch: the map registers the watch and, for WithReplay, puts
\* one event of type none per entry in front of the live events; the
\* forwarding goroutine starts, and the caller starts reading ch
Watch(w) ==
    /\ wpc[w] = "init"
    /\ \E o \in Orders(Entries) :
          mapCh' = [mapCh EXCEPT ![w] = [i \in DOMAIN o |-> MapEvent(EventNone, o[i])]]
    /\ mapOpen' = [mapOpen EXCEPT ![w] = TRUE]
    /\ wpc' = [wpc EXCEPT ![w] = "recv"]
    /\ consumer' = [consumer EXCEPT ![w] = "reading"]
    /\ snap' = [snap EXCEPT ![w] = Entries]
    /\ UNCHANGED <<devices, index, call, inhand, delivered, since, lastRev, gone, list>>

\* proto.Unmarshal fails on bytes that are no message
UnmarshalOK(bytes) == Len(bytes) \in {0, 4}

\* mutant of ForwardEvent: the event's type is not copied
ForwardEventNoType(event) == Event(EventNone, decodeDevice(event.Entry))

\* &Event{Type: EventType(event.Type), Device: device}
ForwardEvent(event) == Event(event.Type, decodeDevice(event.Entry))

\* mutant of Recv: events of removed entries are not forwarded
RecvSkipRemoved(w) ==
    /\ wpc[w] = "recv"
    /\ mapCh[w] # <<>>
    /\ mapCh' = [mapCh EXCEPT ![w] = Tail(mapCh[w])]
    /\ IF Head(mapCh[w]).Type # EventRemoved
          THEN /\ inhand' = [inhand EXCEPT ![w] = ForwardEvent(Head(mapCh[w]))]
               /\ wpc' = [wpc EXCEPT ![w] = "send"]
          ELSE UNCHANGED <<inhand, wpc>>
    /\ UNCHANGED <<storeVars, call, list, mapOpen, consumer, delivered, snap>>

\* mutant of Recv: the newest event of the stream is taken first
RecvNewest(w) ==
    /\ wpc[w] = "recv"
    /\ mapCh[w] # <<>>
    /\ mapCh' = [mapCh EXCEPT ![w] = SubSeq(mapCh[w], 1, Len(mapCh[w]) - 1)]
    /\ inhand' = [inhand EXCEPT ![w] = ForwardEvent(mapCh[w][Len(mapCh[w])])]
    /\ wpc' = [wpc EXCEPT ![w] = "send"]
    /\ UNCHANGED <<storeVars, call, list, mapOpen, consumer, delivered, snap>>

\* mutant of Recv: one task forwards for all subscribers, so it takes no
\* event while it is sending to another subscriber
RecvShared(w) ==
    /\ wpc[w] = "recv"
    /\ \A v \in Watchers : wpc[v] # "send"
    /\ mapCh[w] # <<>>
    /\ mapCh' = [mapCh EXCEPT ![w] = Tail(mapCh[w])]
    /\ inhand' = [inhand EXCEPT ![w] = ForwardEvent(Head(mapCh[w]))]
    /\ wpc' = [wpc EXCEPT ![w] = "send"]
    /\ UNCHANGED <<storeVars, call, list, mapOpen, consumer, delivered, snap>>

\* the goroutine of Watch takes the next event from mapCh and decodes it;
\* an event that does not decode is skipped
Recv(w) ==
    /\ wpc[w] = "recv"
    /\ mapCh[w] # <<>>
    /\ mapCh' = [mapCh EXCEPT ![w] = Tail(mapCh[w])]
    /\ IF UnmarshalOK(Head(mapCh[w]).Entry.Value)
          THEN /\ inhand' = [inhand EXCEPT ![w] = ForwardEvent(Head(mapCh[w]))]
               /\ wpc' = [wpc EXCEPT ![w] = "send"]
          ELSE UNCHANGED <<inhand, wpc>>
    /\ UNCHANGED <<storeVars, call, list, mapOpen, consumer, delivered, snap>>

\* ch <- event: ch is unbuffered, the send completes when the reader takes
\* the event
Send(w) ==
    /\ wpc[w] = "send"
    /\ consumer[w] = "reading"
    /\ delivered' = [delivered EXCEPT ![w] = Append(delivered[w], inhand[w])]
    /\ wpc' = [wpc EXCEPT ![w] = "recv"]
    /\ UNCHANGED <<storeVars, call, list, mapCh, mapOpen, inhand, consumer, snap>>

\* mutant of Close: all subscribers are served through one channel, so the
\* close ends the stream of every one of them
CloseShared(w) ==
    /\ wpc[w] = "recv"
    /\ mapCh[w] = <<>>
    /\ ~mapOpen[w]
    /\ wpc' = [v \in Watchers |-> IF wpc[v] = "init" THEN "init" ELSE "closed"]
    /\ consumer' = [v \in Watchers |-> IF consumer[v] = "reading" THEN "ended" ELSE consumer[v]]
    /\ UNCHANGED <<storeVars, call, list, mapCh, mapOpen, inhand, delivered, snap>>

\* mapCh is closed and drained: the range loop ends and the deferred
\* close(ch) runs; a reader that is still there sees the end of the stream
Close(w) ==
    /\ wpc[w] = "recv"
    /\ mapCh[w] = <<>>
    /\ ~mapOpen[w]
    /\ wpc' = [wpc EXCEPT ![w] = "closed"]
    /\ consumer' = [consumer EXCEPT ![w] = IF @ = "reading" THEN "ended" ELSE @]
    /\ UNCHANGED <<storeVars, call, list, mapCh, mapOpen, inhand, delivered, snap>>

\* the map's event stream of the watch ends with an error; the map client
\* closes mapCh
StreamEnd(w) ==
    /\ mapOpen[w]
    /\ mapOpen' = [mapOpen EXCEPT ![w] = FALSE]
    /\ UNCHANGED <<storeVars, call, list, wpc, mapCh, inhand, consumer, delivered, snap>>

\* the reader of ch stops consuming: the remote caller has gone and the
\* handler that read ch has returned
Disconnect(w) ==
    /\ consumer[w] = "reading"
    /\ consumer' = [consumer EXCEPT ![w] = "gone"]
    /\ UNCHANGED <<storeVars, call, list, wpc, mapCh, mapOpen, inhand, delivered, snap>>

\* ------------------------------------------------------- the enumeration
listOther == <<storeVars, call, mapCh, wpc, mapOpen, inhand, consumer, delivered, snap>>

\* atomixStore.List: the map's entries stream is requested and the
\* forwarding goroutine starts; the stream is one pass over the keys
List(l) ==
    /\ list[l].pc = "init"
    /\ list' = [list EXCEPT ![l] =
                   Listing("recv", IDs, <<>>, NoDevice, <<>>, Entries, index, {})]
    /\ UNCHANGED listOther

\* the entries stream reads one more key and produces its entry if the key
\* is present then: the pass is no snapshot, a write that takes effect while
\* it runs is seen for the keys not read yet
EntriesRead(l, key) ==
    /\ list[l].pc \in {"recv", "send"}
    /\ key \in list[l].keys
    /\ list' = [list EXCEPT
                   ![l].keys = @ \ {key},
                   ![l].mapCh = IF MapGet(key).Version = 0 THEN @ ELSE Append(@, MapGet(key))]
    /\ UNCHANGED listOther

\* mutant of ListForward: the revision is left as it was unmarshalled
ListForwardKeepRevision(entry) == decodeDeviceKeepRevision(entry)

\* what the goroutine of List sends for an entry
ListForward(entry) == decodeDevice(entry)

\* the goroutine of List takes the next entry from mapCh and decodes it; an
\* entry that does not decode is skipped
ListRecv(l) ==
    /\ list[l].pc = "recv"
    /\ list[l].mapCh # <<>>
    /\ list' = [list EXCEPT
                   ![l].mapCh = Tail(@),
                   ![l].inhand = IF UnmarshalOK(Head(list[l].mapCh).Value)
                                    THEN ListForward(Head(list[l].mapCh)) ELSE @,
                   ![l].pc = IF UnmarshalOK(Head(list[l].mapCh).Value) THEN "send" ELSE @]
    /\ UNCHANGED listOther

\* ch <- device: the service takes the device and sends it to the caller as
\* a response of type NONE
ListSend(l) ==
    /\ list[l].pc = "send"
    /\ list' = [list EXCEPT
                   ![l].delivered = Append(@, Event(EventNone, list[l].inhand)),
                   ![l].pc = "recv"]
    /\ UNCHANGED listOther

\* the entries stream has ended (mapCh is closed) and is drained: the range
\* loop ends, the deferred close(ch) runs and the caller sees the end of
\* the stream
ListClose(l) ==
    /\ list[l].pc = "recv"
    /\ list[l].mapCh = <<>>
    /\ list[l].keys = {}
    /\ list' = [list EXCEPT ![l].pc = "closed", ![l].end = Entries]
    /\ UNCHANGED listOther

\* ------------------------------------------------------------ next state
\* the calls that write, with their requests drawn from In and RIn
WriteNext(P, In, RIn) ==
    \/ \E p \in P, d \in In : Add(p, d)
    \/ \E p \in P, d \in In : Update(p, d)
    \/ \E p \in P, d \in RIn : Remove(p, d)
    \/ \E p \in P : Store(p)
    \/ \E p \in P : Delete(p)
    \/ \E p \in P : Return(p)

\* the calls that read
ReadNext(P) ==
    \/ \E p \in P, id \in IDs : Get(p, id)
    \/ \E p \in P : Load(p)

Next == WriteNext(Procs, Inputs, RemoveInputs) \/ ReadNext(Procs)

Spec == Init /\ [][Next]_vars

\* The change feed with its subscribers W and one writer, whose requests
\* vary in id and revision only (the feed does not read the other fields).
Writers == {"p1"}

FeedInputs == {d \in Inputs : d.Address = "a:1"}

FeedNextOf(W, In, RIn) ==
    \/ WriteNext(Writers, In, RIn)
    \/ \E w \in W : Watch(w)
    \/ \E w \in W : Recv(w)
    \/ \E w \in W : Send(w)

\* the ways a stream ends
EndNext(W) ==
    \/ \E w \in W : Close(w)
    \/ \E w \in W : StreamEnd(w)
    \/ \E w \in W : Disconnect(w)

\* goroutines that can run do run, and the map answers every request
FeedFairness(W) ==
    /\ \A w \in W : WF_vars(Recv(w)) /\ WF_vars(Send(w)) /\ WF_vars(Close(w))
    /\ \A p \in Writers : WF_vars(Store(p)) /\ WF_vars(Delete(p))

\* one subscriber
FeedNext == FeedNextOf({"w1"}, FeedInputs, RemoveInputs) \/ EndNext({"w1"})

FeedSpec == Init /\ [][FeedNext]_vars

FairFeedSpec == Init /\ [][FeedNext]_vars /\ FeedFairness({"w1"})

\* two subscribers, of which w1 can stop reading while w2 keeps reading,
\* and the records of one id
OneID == {d \in FeedInputs : d.ID = "device-foo"}

\* removes without a revision, as the CLI sends them
OneIDRemove == {d \in RemoveInputs : d.ID = "device-foo" /\ d.Revision = 0}

TwoFeedNext == FeedNextOf(Watchers, OneID, OneIDRemove) \/ Disconnect("w1")

TwoFeedSpec == Init /\ [][TwoFeedNext]_vars /\ FeedFairness(Watchers)

\* the steps of the List calls
ListNextOf(L) ==
    \/ \E l \in L : List(l)
    \/ \E l \in L, key \in IDs : EntriesRead(l, key)
    \/ \E l \in L : ListRecv(l)
    \/ \E l \in L : ListSend(l)
    \/ \E l \in L : ListClose(l)

\* the map's stream delivers, and goroutines that can run do run
ListFairness(L) ==
    /\ \A l \in L :
          /\ WF_vars(\E key \in IDs : EntriesRead(l, key))
          /\ WF_vars(ListRecv(l)) /\ WF_vars(ListSend(l)) /\ WF_vars(ListClose(l))
    /\ \A p \in Writers : WF_vars(Store(p)) /\ WF_vars(Delete(p))

\* a List call while one caller writes
ListNext == WriteNext(Writers, FeedInputs, RemoveInputs) \/ ListNextOf(Listers)

ListSpec == Init /\ [][ListNext]_vars /\ ListFairness(Listers)

\* one streaming call, a subscribing one or a List, while one caller writes
\* (streaming calls share nothing but the map, which they only read)
StreamNext ==
    \/ WriteNext(Writers, FeedInputs, RemoveInputs)
    \/ (\A l \in Listers : list[l].pc = "init") /\ Watch("w1")
    \/ Recv("w1")
    \/ Send("w1")
    \/ EndNext({"w1"})
    \/ \E l \in Listers : wpc["w1"] = "init" /\ List(l)
    \/ \E l \in Listers, key \in IDs : EntriesRead(l, key)
    \/ \E l \in Listers : ListRecv(l)
    \/ \E l \in Listers : ListSend(l)
    \/ \E l \in Listers : ListClose(l)

StreamSpec == Init /\ [][StreamNext]_vars

\* The records of one id, removed and added again, with callers that come
\* back with the revision of the removed record.
ReuseRemove == {d \in RemoveInputs : d.ID = "device-foo"}

ReuseNext ==
    \/ WriteNext(Procs, OneID, ReuseRemove)
    \/ \E p \in Procs, d \in OneID : Resubmit(p, "Update", d)
    \/ \E p \in Procs, d \in ReuseRemove : Resubmit(p, "Remove", d)

ReuseSpec == Init /\ [][ReuseNext]_vars

\* one streaming call and a caller that reads and writes
ReadStreamNext == StreamNext \/ ReadNext(Writers)

ReadStreamSpec == Init /\ [][ReadStreamNext]_vars

\* map requests that exceed their deadline
TimeoutNextOf(P) ==
    \/ \E p \in P : Expire(p)
    \/ \E p \in P : StoreTimeout(p)
    \/ \E p \in P : DeleteTimeout(p)
    \/ \E p \in P : LoadTimeout(p)

\* two callers on the records of one id, with a map that can be late
TimeoutNext ==
    \/ WriteNext(Procs, OneID, OneIDRemove)
    \/ ReadNext(Procs)
    \/ TimeoutNextOf(Procs)

TimeoutSpec == Init /\ [][TimeoutNext]_vars

\* requests without a revision, as a client that has not loaded the device
\* sends them
OneIDNew == {d \in OneID : d.Revision = 0}

\* two subscribers, of which w1 can lose its stream of the map, and the
\* records of one id
TwoEndNext ==
    \/ FeedNextOf(Watchers, OneIDNew, OneIDRemove)
    \/ StreamEnd("w1")
    \/ Close("w1")

TwoEndSpec == Init /\ [][TwoEndNext]_vars /\ FeedFairness(Watchers)

\* callers of the service and callers that hold what Load gave them
HeldNext ==
    \/ WriteNext(Procs, OneID, OneIDRemove)
    \/ ReadNext(Procs)
    \/ \E p \in Procs : StoreHeld(p)

HeldSpec == Init /\ [][HeldNext]_vars

\* the commands of the CLI next to the other callers of the service
CliNext ==
    \/ WriteNext(Procs, OneID, OneIDRemove)
    \/ ReadNext(Procs)
    \/ \E p \in Procs, address \in Addresses : CliUpdate(p, address)
    \/ \E p \in Procs, id \in IDs : CliRemove(p, id)

CliSpec == Init /\ [][CliNext]_vars

\* the calls of the legacy store
LegacyNextOf(P, In) ==
    \/ \E p \in P, d \in In : LegacyCall(p, "LegacyStore", d)
    \/ \E p \in P, d \in In : LegacyCall(p, "LegacyDelete", d)
    \/ \E p \in P : LegacyStore(p)
    \/ \E p \in P : LegacyDelete(p)
    \/ \E p \in P : Return(p)

\* one caller, whose calls follow one another
LegacyNext == LegacyNextOf(Writers, LegacyInputs)

LegacySpec == Init /\ [][LegacyNext]_vars

\* the two stores next to each other, each with the records of one id, and
\* a map that can be late
BarLegacy == {d \in LegacyInputs : d.Id = "device-bar"}

BothNext ==
    \/ WriteNext(Procs, OneID, OneIDRemove)
    \/ LegacyNextOf(Procs, BarLegacy)
    \/ \E p \in Procs : Expire(p)
    \/ \E p \in Procs : StoreTimeout(p)
    \/ \E p \in Procs : DeleteTimeout(p)
    \/ \E p \in Procs : LegacyStoreTimeout(p)

BothSpec == Init /\ [][BothNext]_vars

\* The service with requests that fail validation among the valid ones: one
\* caller, one subscriber, the records of one id.
CheckedInputs ==
    {DeviceOf(id, rev, addr, ver) :
        id \in {"device-foo"} \cup BadIDs, rev \in Revisions,
        addr \in {"a:1"} \cup BadAddresses, ver \in Versions \cup BadVersions}

ValidNext == FeedNextOf({"w1"}, CheckedInputs, OneIDRemove)

ValidSpec == Init /\ [][ValidNext]_vars

\* ------------------------------------------------------------ properties
\* in this step the store function of p's call runs and the call finishes
Runs(p, fn) == call[p].pc = fn /\ call'[p].pc = "done"

Done(p, o) == call[p].pc = "done" /\ call[p].op = o

KeyVersion(id) == devices[id].Version

\* C1: an Update whose revision differs from the key's current revision
\* fails (with Conflict when the key is present), and the map, so the stored
\* record with its revision, is after the call as it was before
C1_StaleUpdateRejected ==
    [][\A p \in Procs :
        (/\ Runs(p, "Store")
         /\ call[p].op = "Update"
         /\ call[p].in.Revision # KeyVersion(call[p].in.ID))
        => /\ call'[p].err # OK
           /\ KeyVersion(call[p].in.ID) # 0 => call'[p].err = Conflict
           /\ devices' = devices
           /\ index' = index]_vars

\* C1 witness: an Update carrying an older revision of a present record has
\* come back with Conflict
C1_Witness ==
    \E p \in Procs :
        /\ Done(p, "Update")
        /\ call[p].err = Conflict
        /\ call[p].in.Revision < KeyVersion(call[p].in.ID)

\* C2: of two concurrent Updates of one id that both carry the revision
\* current when they began, exactly one succeeds, the other gets Conflict,
\* and the stored record is the one the successful call wrote
C2_OneUpdateWins ==
    \A p, q \in Procs :
        (/\ p # q
         /\ Done(p, "Update") /\ Done(q, "Update")
         /\ call[p].in.ID = call[q].in.ID
         /\ call[p].in.Revision = call[q].in.Revision
         /\ call[p].cur /\ call[q].cur)
        => /\ (call[p].err = OK) # (call[q].err = OK)
           /\ call[p].err = OK =>
                 /\ call[q].err = Conflict
                 /\ devices[call[p].in.ID] =
                        Entry(call[p].in.ID, Marshal(call[p].in), call[p].out.Revision)
                 /\ call[p].out.Revision # call[p].in.Revision

\* C2 witness: both Updates are back, one with success and one with Conflict
C2_Witness ==
    \E p, q \in Procs :
        /\ p # q
        /\ Done(p, "Update") /\ Done(q, "Update")
        /\ call[p].in.ID = call[q].in.ID
        /\ call[p].in.Revision = call[q].in.Revision
        /\ call[p].cur /\ call[q].cur
        /\ call[p].err = OK /\ call[q].err = Conflict
        /\ call[p].in.Address # call[q].in.Address

\* C3: a Get that runs on a key whose current record was written by a
\* successful Add or Update returns that call's device: the fields are the
\* request's, the revision is non-zero and is the revision the Add or
\* Update returned
C3_RoundTrip ==
    [][\A p, q \in Procs :
        (/\ Runs(q, "Load")
         /\ call[p].pc = "done" /\ call[p].op \in {"Add", "Update"}
         /\ call[p].err = OK
         /\ call[p].in.ID = call[q].in.ID
         /\ devices[call[p].in.ID] =
                Entry(call[p].in.ID, Marshal(call[p].in), call[p].out.Revision))
        => /\ call'[q].err = OK
           /\ call'[q].out.ID = call[p].in.ID
           /\ call'[q].out.Address = call[p].in.Address
           /\ call'[q].out.Revision # 0
           /\ call'[q].out.Revision = call[p].out.Revision]_vars

\* C3 witness: an Update has succeeded and a Get of the same id has
\* returned the device with the revision of the Update
C3_Witness ==
    \E p, q \in Procs :
        /\ Done(p, "Update") /\ call[p].err = OK
        /\ Done(q, "Get") /\ call[q].err = OK
        /\ call[q].out = call[p].out
        /\ call[q].out.Address = call[p].in.Address
        /\ call[q].out.Revision > call[p].in.Revision

\* C4: every successful Store returns the revision the record now has, and
\* it is greater than the revision the record had before the write and than
\* the revision of every earlier write to the same id
C4_RevisionIncreases ==
    [][\A p \in Procs :
        (Runs(p, "Store") /\ call'[p].err = OK)
        => /\ call'[p].out.Revision = devices'[call[p].in.ID].Version
           /\ call'[p].out.Revision > KeyVersion(call[p].in.ID)
           /\ call'[p].out.Revision > lastRev[call[p].in.ID]
           /\ lastRev[call[p].in.ID] >= KeyVersion(call[p].in.ID)]_vars

\* C4 witness: the last of MaxIndex successive writes to one id, an Add, has
\* succeeded
C4_Witness ==
    \E p \in Procs :
        /\ Done(p, "Add") /\ call[p].err = OK
        /\ call[p].out.Revision = MaxIndex
        /\ KeyVersion(call[p].in.ID) = MaxIndex
        /\ \A id \in IDs : id # call[p].in.ID => lastRev[id] = 0

\* C5: a Remove that carries the revision currently stored for its id
\* succeeds and leaves the key absent; a key stays absent until a Store puts
\* it; and a Get that runs on an absent key returns NotFound
C5_RemoveThenNotFound ==
    [][/\ \A p \in Procs :
            (/\ Runs(p, "Delete")
             /\ call[p].in.Revision # 0
             /\ call[p].in.Revision = KeyVersion(call[p].in.ID))
            => /\ call'[p].err = OK
               /\ devices'[call[p].in.ID] = NoEntry
       /\ \A p \in Procs :
            (Runs(p, "Load") /\ KeyVersion(call[p].in.ID) = 0)
            => call'[p].err = NotFound /\ call'[p].out = NoDevice
       /\ \A id \in IDs :
            (KeyVersion(id) = 0 /\ devices'[id] # NoEntry)
            => \E p \in Procs :
                  /\ Runs(p, "Store") /\ call[p].in.ID = id
                  /\ call'[p].err = OK]_vars

\* C5 witness: a Remove with the matching revision has succeeded and a Get
\* of the removed id has come back with NotFound
C5_Witness ==
    \E p, q \in Procs :
        /\ Done(p, "Remove") /\ call[p].err = OK
        /\ call[p].in.Revision # 0 /\ call[p].cur
        /\ Done(q, "Get") /\ call[q].err = NotFound
        /\ call[q].in.ID = call[p].in.ID
        /\ lastRev[call[p].in.ID] = call[p].in.Revision
        /\ index = call[p].in.Revision + 1

\* the device an entry stands for, read off the entry field by field
EntryDevice(entry) ==
    DeviceOf(entry.Key, entry.Version, entry.Value[3], entry.Value[4])

\* the event a subscriber has to get for an event of the map
Expect(ev) == Event(ev.Type, EntryDevice(ev.Entry))

\* everything produced for a subscriber so far: what its reader has got,
\* the event being sent, and the events still in the map's stream
Stream(w) ==
    delivered[w] \o (IF wpc[w] = "send" THEN <<inhand[w]>> ELSE <<>>)
                 \o [i \in DOMAIN mapCh[w] |-> Expect(mapCh[w][i])]

\* the forwarding goroutine has nothing left to forward
Drained(w) == mapCh[w] = <<>> /\ wpc[w] \in {"recv", "closed"}

Count(seq, e) == Cardinality({i \in DOMAIN seq : seq[i] = e})

\* C6: a subscriber whose watch was registered with N records present gets
\* N replay events (type none), one per record that was present, before any
\* live event; and for each record inserted afterwards it gets the inserted
\* event once
C6_ReplayThenLive ==
    \A w \in Watchers :
        wpc[w] # "init" =>
        LET n == Cardinality(snap[w])
            d == delivered[w]
        IN /\ \A i \in DOMAIN d : (i <= n) <=> (d[i].Type = EventNone)
           /\ \A i \in DOMAIN d :
                 i <= n => /\ \E e \in snap[w] : d[i].Device = EntryDevice(e)
                           /\ \A j \in DOMAIN d : (j <= n /\ j # i) => d[j] # d[i]
           /\ Drained(w) => Len(d) >= n
           /\ \A k \in DOMAIN since[w] :
                 since[w][k].Type = EventInserted =>
                    /\ Count(d, Expect(since[w][k])) <= 1
                    /\ Drained(w) => Count(d, Expect(since[w][k])) = 1

\* C6 witness: a record was present at registration, and the reader has got
\* its replay event and then the inserted event of a record added later
C6_Witness ==
    \E w \in Watchers :
        /\ Cardinality(snap[w]) = 1
        /\ Len(delivered[w]) = 2
        /\ delivered[w][1].Type = EventNone
        /\ delivered[w][2].Type = EventInserted
        /\ delivered[w][2].Device.ID # delivered[w][1].Device.ID
        /\ Drained(w)

\* C7: what is produced for a subscriber is the replay of the records
\* present at registration followed by exactly the mutations that took effect
\* after it, each once and in order (none missed, none twice), and no write
\* shows both as a replay event and as a live event
C7_NoneMissedNoneTwice ==
    \A w \in Watchers :
        wpc[w] # "init" =>
        LET n == Cardinality(snap[w])
            S == Stream(w)
        IN /\ Len(S) = n + Len(since[w])
           /\ \A k \in DOMAIN since[w] : S[n + k] = Expect(since[w][k])
           /\ {S[i] : i \in 1..n} = {Event(EventNone, EntryDevice(e)) : e \in snap[w]}
           /\ \A i \in 1..n : \A j \in (n + 1)..Len(S) :
                 S[j].Type \in {EventInserted, EventUpdated} =>
                    \/ S[j].Device.ID # S[i].Device.ID
                    \/ S[j].Device.Revision # S[i].Device.Revision

\* C7 witness: the map held a record when the watch was registered, and the
\* reader has got its replay and then the two mutations of it that took
\* effect afterwards
C7_Witness ==
    \E w \in Watchers :
        /\ Cardinality(snap[w]) = 1
        /\ Len(since[w]) = 2
        /\ Len(delivered[w]) = 3
        /\ delivered[w][2].Device.ID = delivered[w][1].Device.ID
        /\ delivered[w][2].Type = EventUpdated
        /\ delivered[w][3].Type = EventRemoved

\* C8: the events of one id reach a subscriber in non-decreasing revision
\* order
C8_RevisionOrder ==
    \A w \in Watchers :
        \A i, j \in DOMAIN delivered[w] :
            (i < j /\ delivered[w][i].Device.ID = delivered[w][j].Device.ID)
            => delivered[w][i].Device.Revision <= delivered[w][j].Device.Revision

\* C8 witness: three events of one id have been delivered, with a rising
\* revision and then an equal one (the removed event of the updated record)
C8_Witness ==
    \E w \in Watchers :
        /\ Len(delivered[w]) = 3
        /\ \A i \in 1..3 : delivered[w][i].Device.ID = delivered[w][1].Device.ID
        /\ delivered[w][1].Device.Revision < delivered[w][2].Device.Revision
        /\ delivered[w][2].Device.Revision = delivered[w][3].Device.Revision

\* C9: once the reader of a subscriber has stopped consuming, the forwarding
\* goroutine eventually ends and the map's subscription is released
C9_ConsumerGoneReleases ==
    \A w \in Watchers :
        (consumer[w] = "gone") ~> (wpc[w] = "closed" /\ ~mapOpen[w])

\* the reader of w has gone while the goroutine is in its send: the send
\* never completes
Blocked(w) == consumer[w] = "gone" /\ wpc[w] = "send"

\* the reader of w has got everything produced for w so far
CaughtUp(w) == Len(delivered[w]) = Len(Stream(w))

\* C10: while the reader of w1 never reads, the reader of w2 keeps getting
\* everything produced for w2 (whatever is produced, it is caught up with
\* again later), and the writer's calls complete
C10_BlockedSubscriberIsolated ==
    /\ Blocked("w1") ~> CaughtUp("w2")
    /\ \A p \in Writers :
          (Blocked("w1") /\ call[p].pc \in {"Store", "Delete"}) ~> (call[p].pc = "done")

\* C10 witness: w1 is blocked on an event, w2 has got a later event, and the
\* write of that later event has completed
C10_Witness ==
    /\ Blocked("w1")
    /\ \E i \in DOMAIN delivered["w2"] :
          delivered["w2"][i].Device.Revision > inhand["w1"].Device.Revision
    /\ \E p \in Writers :
          /\ Done(p, "Update") /\ call[p].err = OK
          /\ call[p].out.Revision > inhand["w1"].Device.Revision
          /\ Count(delivered["w2"], Event(EventUpdated, call[p].out)) = 1

\* none of the fields of d has a value the validation refuses
WellFormed(d) ==
    d.ID \notin BadIDs /\ d.Address \notin BadAddresses /\ d.Version \notin BadVersions

\* in this step the service receives p's request
Arrives(p, ops) ==
    call[p].pc = "idle" /\ call'[p].pc # "idle" /\ call'[p].op \in ops

\* C12: an Add or Update whose device has an invalid id, address or version,
\* and an Add that carries a revision, comes back with a ValidationError in
\* the step that receives it: the map and its version counter stay as they
\* were, the response carries no new revision and nothing is produced for
\* any subscriber; so no stored record and no delivered event ever has a
\* field that the validation refuses
C12_RejectedLeavesStore ==
    /\ [][\A p \in Procs :
            (/\ Arrives(p, {"Add", "Update"})
             /\ \/ ~WellFormed(call'[p].in)
                \/ call'[p].op = "Add" /\ call'[p].in.Revision # 0)
            => /\ call'[p].pc = "done"
               /\ call'[p].err = Invalid
               /\ call'[p].out.Revision = call'[p].in.Revision
               /\ devices' = devices
               /\ index' = index
               /\ \A w \in Watchers : Stream(w)' = Stream(w)]_vars
    /\ [](\A id \in IDs :
            KeyVersion(id) # 0 => WellFormed(EntryDevice(devices[id])))
    /\ [](\A w \in Watchers : \A i \in DOMAIN delivered[w] :
            WellFormed(delivered[w][i].Device))

\* C12 witness: an Add with an address that is not host:port has come back
\* with a ValidationError while the record of a valid id is stored and its
\* event has reached the subscriber
C12_Witness ==
    \E p \in Procs :
        /\ Done(p, "Add") /\ call[p].err = Invalid
        /\ call[p].in.Address \in BadAddresses
        /\ call[p].in.ID = "device-foo" /\ call[p].in.Revision = 0
        /\ KeyVersion("device-foo") # 0
        /\ EntryDevice(devices["device-foo"]).Address = "a:1"
        /\ Len(delivered["w1"]) = 1 /\ Drained("w1")

\* the response a List call gives for an entry
Listed(e) == Event(EventNone, EntryDevice(e))

\* C11 as stated: when the stream of a List call has ended, the caller has
\* got exactly one response of type NONE for each record present at call
\* time, and nothing else
C11_ListIsSnapshot ==
    \A l \in Listers :
        list[l].pc = "closed" =>
            /\ Len(list[l].delivered) = Cardinality(list[l].snap)
            /\ \A e \in list[l].snap : Count(list[l].delivered, Listed(e)) = 1

\* C11, amended: a List call gives only responses of type NONE, at most one
\* per id, each for a record present at call time or written after it; when
\* the stream has ended, every record that was present at call time and is
\* still stored unchanged has got exactly one response, carrying its
\* revision; nothing follows the end of the stream; and the enumeration
\* always ends
C11_ListOnePass ==
    /\ [](\A l \in Listers :
            LET d == list[l].delivered
            IN /\ \A i \in DOMAIN d : d[i].Type = EventNone
               /\ \A i, j \in DOMAIN d : d[i].Device.ID = d[j].Device.ID => i = j
               /\ \A i \in DOMAIN d :
                     \/ \E e \in list[l].snap : d[i] = Listed(e)
                     \/ d[i].Device.Revision > list[l].idx
               /\ list[l].pc = "closed" =>
                     \A e \in list[l].snap \cap list[l].end : Count(d, Listed(e)) = 1)
    /\ [][\A l \in Listers : list[l].pc = "closed" => list'[l] = list[l]]_vars
    /\ \A l \in Listers : (list[l].pc # "init") ~> (list[l].pc = "closed")

\* C11 witness: the stream of a List call made with two records present has
\* ended after a response for each, no write having happened meanwhile
C11_Witness ==
    \E l \in Listers :
        /\ list[l].pc = "closed"
        /\ Cardinality(list[l].snap) = 2
        /\ list[l].end = list[l].snap
        /\ Len(list[l].delivered) = 2
        /\ \A e \in list[l].snap : Count(list[l].delivered, Listed(e)) = 1

\* C13: a Delete that carries a revision removes the record exactly when
\* that revision is the one stored for the id, and otherwise fails and
\* leaves the map as it was; a Delete without a revision removes the record
\* whatever its revision is; no Delete touches another key
C13_DeleteGuard ==
    [][\A p \in Procs :
        Runs(p, "Delete") =>
            LET d == call[p].in
            IN /\ d.Revision # 0 =>
                     /\ (call'[p].err = OK) <=> (KeyVersion(d.ID) = d.Revision)
                     /\ IF KeyVersion(d.ID) = d.Revision
                           THEN devices'[d.ID] = NoEntry
                           ELSE devices' = devices
               /\ d.Revision = 0 =>
                     /\ devices'[d.ID] = NoEntry
                     /\ KeyVersion(d.ID) # 0 => call'[p].err = OK
               /\ \A id \in IDs : id # d.ID => devices'[id] = devices[id]]_vars

\* C13 witness: a Remove carrying a revision that is not the stored one has
\* failed and its record is still stored, and a Remove without a revision
\* has removed the record of another id
C13_Witness ==
    \E p, q \in Procs :
        /\ Done(p, "Remove") /\ call[p].err = Conflict
        /\ call[p].in.Revision # 0
        /\ KeyVersion(call[p].in.ID) \notin {0, call[p].in.Revision}
        /\ Done(q, "Remove") /\ call[q].err = OK
        /\ call[q].in.Revision = 0
        /\ gone[call[q].in.ID] # 0
        /\ KeyVersion(call[q].in.ID) = 0

\* C14: an Update without a revision comes back with a ValidationError in
\* the step that receives it and the map stays as it was; the put of an
\* Update always carries IfVersion; and an Update that changes the map
\* carried the revision that was stored for its id
C14_UpdateNeedsRevision ==
    /\ [][\A p \in Procs :
            (Arrives(p, {"Update"}) /\ call'[p].in.Revision = 0)
            => /\ call'[p].pc = "done"
               /\ call'[p].err = Invalid
               /\ devices' = devices
               /\ index' = index]_vars
    /\ [](\A p \in Procs :
            (call[p].pc = "Store" /\ call[p].op = "Update")
            => PutVersion(call[p].in) # 0)
    /\ [][\A p \in Procs :
            (Runs(p, "Store") /\ call[p].op = "Update" /\ devices' # devices)
            => /\ call[p].in.Revision # 0
               /\ call[p].in.Revision = KeyVersion(call[p].in.ID)]_vars

\* C14 witness: an Update without a revision, for an id that is stored with
\* another address, has come back with a ValidationError
C14_Witness ==
    \E p \in Procs :
        /\ Done(p, "Update") /\ call[p].err = Invalid
        /\ call[p].in.Revision = 0
        /\ KeyVersion(call[p].in.ID) # 0
        /\ EntryDevice(devices[call[p].in.ID]).Address # call[p].in.Address

\* C15: an Add that carries a revision comes back with a ValidationError in
\* the step that receives it, the map and its counter staying as they were;
\* a successful Add was sent without a revision and returns the version the
\* map assigned to the entry, which is not zero
C15_AddIsNew ==
    [][\A p \in Procs :
        /\ (Arrives(p, {"Add"}) /\ call'[p].in.Revision # 0)
           => /\ call'[p].pc = "done"
              /\ call'[p].err = Invalid
              /\ call'[p].out.Revision = call'[p].in.Revision
              /\ devices' = devices
              /\ index' = index
        /\ (Runs(p, "Store") /\ call[p].op = "Add" /\ call'[p].err = OK)
           => /\ call[p].in.Revision = 0
              /\ call'[p].out.Revision # 0
              /\ call'[p].out.Revision = devices'[call[p].in.ID].Version
              /\ call'[p].out.Revision = index'
              /\ index' = index + 1]_vars

\* C15 witness: an Add carrying a revision has been rejected, and an Add
\* without one has succeeded and has got its revision
C15_Witness ==
    \E p, q \in Procs :
        /\ Done(q, "Add") /\ call[q].err = Invalid /\ call[q].in.Revision # 0
        /\ Done(p, "Add") /\ call[p].err = OK
        /\ call[p].in.Revision = 0
        /\ call[p].out.Revision = KeyVersion(call[p].in.ID)
        /\ call[p].out.Revision # 0

\* C16: an Add for an id that is present does not replace the fields of the
\* stored record
C16_AddKeepsExisting ==
    [][\A p \in Procs :
        (Runs(p, "Store") /\ call[p].op = "Add" /\ KeyVersion(call[p].in.ID) # 0)
        => /\ devices'[call[p].in.ID] # NoEntry
           /\ EntryDevice(devices'[call[p].in.ID]).Address =
                  EntryDevice(devices[call[p].in.ID]).Address
           /\ EntryDevice(devices'[call[p].in.ID]).Version =
                  EntryDevice(devices[call[p].in.ID]).Version]_vars

\* C17: a Store or Delete that carries a revision fails with NotFound when
\* the key is absent and with Conflict when the key is present with another
\* revision
C17_AbsentIsNotFound ==
    [][\A p \in Procs :
        ((Runs(p, "Store") \/ Runs(p, "Delete")) /\ call[p].in.Revision # 0)
        => /\ KeyVersion(call[p].in.ID) = 0 => call'[p].err = NotFound
           /\ KeyVersion(call[p].in.ID) \notin {0, call[p].in.Revision}
                 => call'[p].err = Conflict]_vars

\* the phase of a subscribing call, read off what it has done: LIVE from the
\* first live event it has emitted
WatchPhase(w) ==
    IF wpc[w] = "init" THEN "INIT"
    ELSE IF wpc[w] = "closed" THEN "CLOSED"
    ELSE IF \E i \in DOMAIN delivered[w] : delivered[w][i].Type # EventNone THEN "LIVE"
    ELSE "REPLAYING"

\* the phase of a List call
ListPhase(l) ==
    IF list[l].pc = "init" THEN "INIT"
    ELSE IF list[l].pc = "closed" THEN "CLOSED"
    ELSE IF \E i \in DOMAIN list[l].delivered : list[l].delivered[i].Type # EventNone
        THEN "LIVE"
    ELSE "REPLAYING"

\* the phase changes of a streaming call
PhaseSteps ==
    {<<"INIT", "REPLAYING">>, <<"REPLAYING", "LIVE">>,
     <<"REPLAYING", "CLOSED">>, <<"LIVE", "CLOSED">>}

\* C18: a streaming call changes phase only from INIT to REPLAYING, from
\* REPLAYING to LIVE or CLOSED and from LIVE to CLOSED; a subscribing call
\* emits its first live event only when it has emitted one replay event for
\* each record present at call time and nothing else; a List call is never
\* LIVE; and a call that is CLOSED emits nothing more
C18_PhaseOrder ==
    /\ [][\A w \in Watchers :
            /\ WatchPhase(w)' # WatchPhase(w)
                  => <<WatchPhase(w), WatchPhase(w)'>> \in PhaseSteps
            /\ (WatchPhase(w) # "LIVE" /\ WatchPhase(w)' = "LIVE")
                  => /\ Len(delivered[w]) = Cardinality(snap[w])
                     /\ \A e \in snap[w] : Count(delivered[w], Listed(e)) = 1
            /\ WatchPhase(w) = "CLOSED" => delivered'[w] = delivered[w]]_vars
    /\ [][\A l \in Listers :
            /\ ListPhase(l)' # ListPhase(l)
                  => <<ListPhase(l), ListPhase(l)'>> \in
                        {<<"INIT", "REPLAYING">>, <<"REPLAYING", "CLOSED">>}
            /\ ListPhase(l) = "CLOSED" => list'[l].delivered = list[l].delivered]_vars

\* C18 witness: a subscribing call made with two records present has emitted
\* their two replay events, then a live event, and is closed
C18_Witness ==
    \E w \in Watchers :
        /\ wpc[w] = "closed"
        /\ Cardinality(snap[w]) = 2
        /\ Len(delivered[w]) = 3
        /\ delivered[w][1].Type = EventNone /\ delivered[w][2].Type = EventNone
        /\ delivered[w][3].Type # EventNone

\* the type of the event of a successful Store: an Update finds its record;
\* an Add inserts a record or replaces the one that is present
StoredType(p) ==
    IF call[p].op = "Update" \/ KeyVersion(call[p].in.ID) # 0
    THEN EventUpdated ELSE EventInserted

\* C19: a successful Add or Update produces, for every subscription that is
\* registered, exactly one event, of the type of the write (UPDATED for an
\* Update) and carrying the device the call returns; a successful Remove
\* produces one REMOVED event carrying the id, the revision and the fields
\* of the removed record; a call that fails (ValidationError, Conflict,
\* NotFound) produces nothing; and a reader gets each live event at most
\* once, and exactly once when the goroutine has nothing left to forward
C19_OneEventPerMutation ==
    /\ [][\A p \in Procs, w \in Watchers :
            /\ (Runs(p, "Store") /\ call'[p].err = OK /\ mapOpen[w])
               => Stream(w)' = Append(Stream(w), Event(StoredType(p), call'[p].out))
            /\ (Runs(p, "Delete") /\ call'[p].err = OK /\ mapOpen[w])
               => Stream(w)' =
                     Append(Stream(w),
                            Event(EventRemoved, EntryDevice(devices[call[p].in.ID])))
            /\ (/\ \/ Runs(p, "Store")
                   \/ Runs(p, "Delete")
                   \/ Arrives(p, {"Add", "Update", "Remove"})
                /\ call'[p].err # OK)
               => Stream(w)' = Stream(w)]_vars
    /\ [](\A w \in Watchers : \A k \in DOMAIN since[w] :
            /\ Count(delivered[w], Expect(since[w][k])) <= 1
            /\ Drained(w) => Count(delivered[w], Expect(since[w][k])) = 1)

\* C19 witness: a subscriber registered on the empty store has got the
\* events of an Add, an Update and a Remove of one id, the last one of type
\* REMOVED with the revision and the address the Update had stored
C19_Witness ==
    \E p \in Procs, w \in Watchers :
        /\ Done(p, "Remove") /\ call[p].err = OK
        /\ snap[w] = {} /\ Drained(w)
        /\ Len(delivered[w]) = 3
        /\ delivered[w][1].Type = EventInserted
        /\ delivered[w][2].Type = EventUpdated
        /\ delivered[w][3] =
              Event(EventRemoved, [delivered[w][2].Device EXCEPT !.ID = call[p].in.ID])
        /\ delivered[w][3].Device.Revision = gone[call[p].in.ID]

\* C20: an Add without a revision that runs when its id has been removed
\* succeeds, stores the request and returns a revision that is not zero and
\* is greater than every revision of the removed records; an Update or a
\* Remove that carries a revision of a removed record of its id fails and
\* leaves the map, so the new record, as it was
C20_FreshLineage ==
    [][\A p \in Procs :
        /\ (/\ Runs(p, "Store") /\ call[p].op = "Add"
            /\ KeyVersion(call[p].in.ID) = 0 /\ gone[call[p].in.ID] # 0)
           => /\ call'[p].err = OK
              /\ call'[p].out.Revision # 0
              /\ call'[p].out.Revision > gone[call[p].in.ID]
              /\ devices'[call[p].in.ID] =
                    Entry(call[p].in.ID, Marshal(call[p].in), call'[p].out.Revision)
        /\ (/\ Runs(p, "Store") \/ Runs(p, "Delete")
            /\ call[p].in.Revision # 0
            /\ call[p].in.Revision <= gone[call[p].in.ID])
           => /\ call'[p].err # OK
              /\ devices' = devices
              /\ index' = index]_vars

\* C20 witness: an id was removed and added again, the Add has returned the
\* revision of the new record, and an Update carrying the revision of the
\* removed record has failed
C20_Witness ==
    \E p, q \in Procs :
        /\ Done(q, "Add") /\ call[q].err = OK
        /\ gone[call[q].in.ID] # 0
        /\ call[q].out.Revision = KeyVersion(call[q].in.ID)
        /\ call[q].out.Revision > gone[call[q].in.ID]
        /\ Done(p, "Update") /\ call[p].err # OK
        /\ call[p].in.ID = call[q].in.ID
        /\ call[p].in.Revision = gone[call[p].in.ID]
        /\ devices[call[q].in.ID] =
              Entry(call[q].in.ID, Marshal(call[q].in), call[q].out.Revision)

\* C21: every device a caller gets has a revision that is not zero: the
\* device of a successful Get (Load), of a successful Add or Update (Store),
\* of every response of a List and of every event of a subscription, replay
\* and removed events included; and no stored entry has version zero
C21_NoZeroRevision ==
    /\ \A p \in Procs :
          (call[p].pc = "done" /\ call[p].op \in {"Get", "Add", "Update"} /\ call[p].err = OK)
          => call[p].out.Revision # 0
    /\ \A w \in Watchers :
          /\ \A i \in DOMAIN delivered[w] : delivered[w][i].Device.Revision # 0
          /\ wpc[w] = "send" => inhand[w].Device.Revision # 0
    /\ \A l \in Listers :
          /\ \A i \in DOMAIN list[l].delivered : list[l].delivered[i].Device.Revision # 0
          /\ list[l].pc = "send" => list[l].inhand.Revision # 0
    /\ \A id \in IDs : devices[id] # NoEntry => KeyVersion(id) # 0

\* C21 witness: a record stored by an Add, whose bytes hold the revision 0
\* of the request, has come back from a Get and in the replay event of a
\* subscription, both with the revision of the entry
C21_Witness ==
    \E p \in Procs, w \in Watchers, id \in IDs :
        /\ Done(p, "Get") /\ call[p].err = OK /\ call[p].in.ID = id
        /\ devices[id] # NoEntry /\ Unmarshal(devices[id].Value).Revision = 0
        /\ call[p].out.Revision = KeyVersion(id)
        /\ Len(delivered[w]) > 0
        /\ delivered[w][1] = Event(EventNone, call[p].out)

\* in this step p's call, whose map request has exceeded its deadline,
\* finishes
TimesOut(p) ==
    /\ call[p].pc \in {"StoreExpired", "DeleteExpired", "LoadExpired"}
    /\ call'[p].pc = "done"

\* C22: a call whose map request exceeds the deadline finishes with
\* Timeout, not with success, NotFound or Conflict, and returns no device
\* other than the one passed; a Get of an absent key that is answered in
\* time finishes with NotFound, so the two are told apart
C22_TimeoutIsDistinct ==
    [][\A p \in Procs :
        /\ TimesOut(p)
           => /\ call'[p].err = Timeout
              /\ call'[p].err \notin {OK, NotFound, Conflict}
              /\ call'[p].out = IF call[p].op = "Get" THEN NoDevice ELSE call[p].in
        /\ (Runs(p, "Load") /\ KeyVersion(call[p].in.ID) = 0)
           => /\ call'[p].err = NotFound
              /\ call'[p].err # Timeout]_vars

\* C22 witness: of two Gets of an absent key one has timed out and the
\* other has been answered: the first is back with Timeout, the second with
\* NotFound
C22_Witness ==
    \E p, q \in Procs :
        /\ Done(p, "Get") /\ Done(q, "Get")
        /\ call[p].in.ID = call[q].in.ID
        /\ KeyVersion(call[p].in.ID) = 0
        /\ call[p].err = Timeout
        /\ call[q].err = NotFound

\* the map's stream of w has ended with an error
Ended(w) == wpc[w] # "init" /\ ~mapOpen[w]

\* s is a prefix of t
Prefix(s, t) == Len(s) <= Len(t) /\ \A i \in DOMAIN s : t[i] = s[i]

\* C23: the step in which the map's stream of a subscriber ends, or its
\* channel is closed, changes nothing of any other subscriber; what a reader
\* has received stays as it was received; a write that succeeds after the
\* stream of w1 has ended still produces its event for w2, and the reader of
\* w2 gets everything produced for it
C23_StreamErrorIsLocal ==
    /\ [][\A w \in Watchers :
            (\/ mapOpen[w] /\ ~mapOpen'[w]
             \/ wpc[w] # "closed" /\ wpc'[w] = "closed")
            => \A v \in Watchers \ {w} :
                  /\ mapOpen'[v] = mapOpen[v] /\ mapCh'[v] = mapCh[v]
                  /\ wpc'[v] = wpc[v] /\ consumer'[v] = consumer[v]
                  /\ delivered'[v] = delivered[v]]_vars
    /\ [][\A w \in Watchers : Prefix(delivered[w], delivered'[w])]_vars
    /\ [][\A p \in Procs :
            (/\ Runs(p, "Store") \/ Runs(p, "Delete")
             /\ call'[p].err = OK
             /\ Ended("w1") /\ mapOpen["w2"])
            => /\ Len(mapCh'["w2"]) = Len(mapCh["w2"]) + 1
               /\ mapCh'["w1"] = mapCh["w1"]]_vars
    /\ Ended("w1") ~> CaughtUp("w2")

\* C23 witness: the stream of w1 has ended after an event and its channel
\* is closed; w1's reader still has that event, and the reader of w2 has got
\* an event of a later write
C23_Witness ==
    /\ wpc["w1"] = "closed" /\ consumer["w1"] = "ended"
    /\ Len(delivered["w1"]) = 1
    /\ wpc["w2"] # "closed" /\ mapOpen["w2"]
    /\ \E i \in DOMAIN delivered["w2"] :
          /\ delivered["w2"][i].Type # EventNone
          /\ delivered["w2"][i].Device.Revision > delivered["w1"][1].Device.Revision

\* C24: a Store leaves the Device it is passed as Load handed it out (with
\* the fields its holder had set), and it leaves alone the Device another
\* caller holds from its own Load
C24_HandedOutIsImmutable ==
    [][\A p \in Procs :
        Runs(p, "Store")
        => /\ call[p].op = "Held" => call'[p].out = call[p].in
           /\ \A q \in Procs \ {p} :
                 Done(q, "Get") => call'[q].out = call[q].out]_vars

\* C25: a Store that returns an error, the deadline's included, leaves the
\* device as it was passed; a Store that succeeds changes nothing of it but
\* the revision, which becomes the version the map gave the entry.  The same
\* holds for the legacy Store and the device's Metadata.
C25_StoreSetsRevisionOnSuccess ==
    [][\A p \in Procs :
        /\ (Runs(p, "Store") \/ Runs(p, "StoreExpired"))
           => /\ call'[p].err # OK => call'[p].out = call[p].in
              /\ call'[p].err = OK =>
                    /\ call'[p].out =
                          [call[p].in EXCEPT !.Revision = KeyVersion(call[p].in.ID)']
                    /\ call'[p].out.Revision = index'
                    /\ index' = index + 1
        /\ (Runs(p, "LegacyStore") \/ Runs(p, "LegacyStoreExpired"))
           => /\ call'[p].err # OK => call'[p].out = call[p].in
              /\ call'[p].err = OK =>
                    /\ call'[p].out.Id = call[p].in.Id
                    /\ call'[p].out.Address = call[p].in.Address
                    /\ ~call'[p].out.Metadata.nil
                    /\ call'[p].out.Metadata.Version = KeyVersion(call[p].in.Id)'
                    /\ call'[p].out.Metadata.Version = index'
                    /\ index' = index + 1]_vars

\* C25 witness: an Update with revision 1 has ended with the deadline's
\* error after its put took effect, and its device still has revision 1; a
\* legacy Store has succeeded and its device has the version of its entry
C25_Witness ==
    \E p, q \in Procs :
       /\ Done(p, "Update") /\ call[p].err = Timeout
       /\ call[p].out = call[p].in
       /\ call[p].in.Revision = 1
       /\ KeyVersion(call[p].in.ID) > 1
       /\ devices[call[p].in.ID].Value = Marshal(call[p].in)
       /\ Done(q, "LegacyStore") /\ call[q].err = OK
       /\ call[q].out.Metadata.Version = KeyVersion(call[q].in.Id)
       /\ call[q].in.Metadata.Version # call[q].out.Metadata.Version

\* C28: a legacy Delete, guarded or not, addresses the key device.Id: when
\* it succeeds the entry of device.Id is the one that has gone, when it
\* fails the map is as it was, and it finds no entry exactly when device.Id
\* has none
C28_LegacyDeleteKey ==
    [][\A p \in Procs :
        Runs(p, "LegacyDelete")
        => /\ call'[p].err = OK =>
                 devices' = [devices EXCEPT ![call[p].in.Id] = NoEntry]
           /\ call'[p].err # OK => devices' = devices
           /\ call'[p].err = NotFound <=> KeyVersion(call[p].in.Id) = 0]_vars

\* C26: the CLI's Update follows its Get with the id and the revision the
\* Get returned; when the record's revision is no longer that one (another
\* writer has changed or removed the record since) the Update fails with
\* Conflict and the map stays as the other writer left it, and otherwise it
\* succeeds
C26_CliUpdateNoLostUpdate ==
    [][\A p \in Procs :
        /\ (Done(p, "Get") /\ call[p].err = OK /\ call'[p].op = "CliUpdate")
           => /\ call'[p].pc = "Store"
              /\ call'[p].in.ID = call[p].out.ID
              /\ call'[p].in.Revision = call[p].out.Revision
              /\ call'[p].in.Revision # 0
        /\ (Runs(p, "Store") /\ call[p].op = "CliUpdate")
           => IF KeyVersion(call[p].in.ID) # call[p].in.Revision
                 THEN call'[p].err = Conflict /\ devices' = devices
                 ELSE /\ call'[p].err = OK
                      /\ EntryDevice(devices'[call[p].in.ID]).Address =
                             call[p].in.Address]_vars

\* C26 witness: the CLI's Update has failed with Conflict, and the record
\* has the address and the later revision another writer's Update gave it
C26_Witness ==
    \E p, q \in Procs :
       /\ Done(p, "CliUpdate") /\ call[p].err = Conflict
       /\ Done(q, "Update") /\ call[q].err = OK
       /\ call[q].in.Revision = call[p].in.Revision
       /\ call[q].in.ID = call[p].in.ID
       /\ KeyVersion(call[p].in.ID) = call[q].out.Revision
       /\ EntryDevice(devices[call[p].in.ID]).Address = call[q].in.Address
       /\ call[p].in.Address # call[q].in.Address

\* C27: the CLI's Remove carries the id and no revision; it never fails
\* with Conflict: it removes the record when there is one, whatever its
\* revision, and answers NotFound when there is none
C27_CliRemoveUnconditional ==
    [][\A p \in Procs :
        /\ (call[p].pc = "idle" /\ call'[p].op = "CliRemove")
           => /\ call'[p].pc = "Delete"
              /\ call'[p].in.Revision = 0
              /\ call'[p].in = DeviceOf(call'[p].in.ID, 0, "", "")
        /\ (Runs(p, "Delete") /\ call[p].op = "CliRemove")
           => /\ call'[p].err # Conflict
              /\ IF KeyVersion(call[p].in.ID) # 0
                    THEN /\ call'[p].err = OK
                         /\ devices' = [devices EXCEPT ![call[p].in.ID] = NoEntry]
                    ELSE call'[p].err = NotFound /\ devices' = devices]_vars

\* C27 witness: the CLI's Remove has removed the record at the revision
\* that another writer's Update, not yet answered, had just given it
C27_Witness ==
    \E p, q \in Procs :
       /\ Done(p, "CliRemove") /\ call[p].err = OK
       /\ Done(q, "Update") /\ call[q].err = OK
       /\ call[q].in.ID = call[p].in.ID
       /\ gone[call[p].in.ID] = call[q].out.Revision
       /\ KeyVersion(call[p].in.ID) = 0

====
